---------------------------- MODULE Spec2Model ----------------------------
(***************************************************************************)
(* Model of the gen-images batch pipeline (src/src/index.ts).              *)
(*                                                                         *)
(* Strings are sequences of one-character strings, so that formatFileName, *)
(* getCacheKey and the output path are computed as the code computes them. *)
(* One run of main() is a walk of the program counter pc through the       *)
(* statements of main(); the two awaited service calls draw their response *)
(* from bounded sets of responses.                                         *)
(***************************************************************************)
EXTENDS Integers, Sequences, FiniteSets, TLC

(***************************************************************************)
(* Bounds of the model.                                                    *)
(***************************************************************************)
MaxDocs == 2        \* input documents listed in input/
MaxCats == 2        \* categories of one document
MaxItems == 2       \* items of all documents read in one run, together
MaxPre == 1         \* output files that exist before the first run
MaxRuns == 2        \* runs of the batch over the same working directory

(***************************************************************************)
(* Characters.                                                             *)
(***************************************************************************)
UpperChars ==
  << "A", "B", "C", "D", "E", "F", "G", "H", "I", "J", "K", "L", "M",
     "N", "O", "P", "Q", "R", "S", "T", "U", "V", "W", "X", "Y", "Z" >>

LowerChars ==
  << "a", "b", "c", "d", "e", "f", "g", "h", "i", "j", "k", "l", "m",
     "n", "o", "p", "q", "r", "s", "t", "u", "v", "w", "x", "y", "z" >>

DigitChars == << "0", "1", "2", "3", "4", "5", "6", "7", "8", "9" >>

Range(s) == { s[k] : k \in DOMAIN s }

\* \s of the regular expressions (the members the model's names use)
WhitespaceChars == { " " }

\* \w of the regular expressions: [A-Za-z0-9_]
WordChars == Range(UpperChars) \cup Range(LowerChars) \cup Range(DigitChars) \cup { "_" }

\* String.prototype.toLowerCase, one character
LowerChar(ch) ==
  IF ch \in Range(UpperChars)
    THEN LowerChars[CHOOSE k \in DOMAIN UpperChars : UpperChars[k] = ch]
    ELSE ch

toLowerCase(s) == [ k \in DOMAIN s |-> LowerChar(s[k]) ]

\* .replace(/[set]/g, "-"): every character of the set becomes a hyphen
ReplaceEach(s, set) == [ k \in DOMAIN s |-> IF s[k] \in set THEN "-" ELSE s[k] ]

\* the longest prefix of s made of characters of the set is dropped
RECURSIVE DropRun(_, _)
DropRun(s, set) ==
  IF s # << >> /\ Head(s) \in set THEN DropRun(Tail(s), set) ELSE s

\* .replace(/[set]+/g, "-"): every maximal run of characters of the set
\* becomes one hyphen
RECURSIVE ReplaceRuns(_, _)
ReplaceRuns(s, set) ==
  IF s = << >> THEN << >>
  ELSE IF Head(s) \in set THEN << "-" >> \o ReplaceRuns(DropRun(s, set), set)
  ELSE << Head(s) >> \o ReplaceRuns(Tail(s), set)

\* .replace(/^-|-$/g, ""): one leading and one trailing hyphen are removed
StripHyphens(s) ==
  LET a == IF s # << >> /\ Head(s) = "-" THEN Tail(s) ELSE s
  IN  IF a # << >> /\ a[Len(a)] = "-" THEN SubSeq(a, 1, Len(a) - 1) ELSE a

\* formatFileName that strips the hyphens of the ends before it collapses
\* the runs of hyphens
formatFileNameStripsFirst(name) ==
  LET s1 == ReplaceRuns(name, WhitespaceChars)
      s2 == ReplaceEach(s1, { "/" })
      s3 == ReplaceEach(s2, { "&" })
      s4 == ReplaceEach(s3, { "(" })
      s5 == ReplaceEach(s4, { ")" })
      s6 == [ k \in DOMAIN s5 |-> IF s5[k] \in WordChars \cup { "-" } THEN s5[k] ELSE "-" ]
      s7 == StripHyphens(s6)
      s8 == ReplaceRuns(s7, { "-" })
  IN  toLowerCase(s8)

\* formatFileName without toLowerCase
formatFileNameKeepsCase(name) ==
  LET s1 == ReplaceRuns(name, WhitespaceChars)
      s2 == ReplaceEach(s1, { "/" })
      s3 == ReplaceEach(s2, { "&" })
      s4 == ReplaceEach(s3, { "(" })
      s5 == ReplaceEach(s4, { ")" })
      s6 == [ k \in DOMAIN s5 |-> IF s5[k] \in WordChars \cup { "-" } THEN s5[k] ELSE "-" ]
      s7 == ReplaceRuns(s6, { "-" })
  IN  StripHyphens(s7)

formatFileName(name) ==
  LET s1 == ReplaceRuns(name, WhitespaceChars)
      s2 == ReplaceEach(s1, { "/" })
      s3 == ReplaceEach(s2, { "&" })
      s4 == ReplaceEach(s3, { "(" })
      s5 == ReplaceEach(s4, { ")" })
      s6 == [ k \in DOMAIN s5 |-> IF s5[k] \in WordChars \cup { "-" } THEN s5[k] ELSE "-" ]
      s7 == ReplaceRuns(s6, { "-" })
      s8 == StripHyphens(s7)
  IN  toLowerCase(s8)

getCacheKey(itemName, category) == category \o << ":", ":" >> \o itemName


(***************************************************************************)
(* The input: file names, documents, categories, items.                    *)
(***************************************************************************)
\* the names the model's categories and items are drawn from: "M" and "m"
\* differ as object keys and agree once formatted
CategoryNames == { << "M" >>, << "m" >> }

ItemNames == { << "S" >>, << "T" >> }

\* the k-th *.json file of input/, without its extension
FileBase(k) == << "F", DigitChars[k + 1] >>

\* file.replace(/\.json$/, "").toLowerCase()
segmentOf(k) == toLowerCase(FileBase(k))

(***************************************************************************)
(* Output paths, relative to outputBaseDir.                                *)
(***************************************************************************)
\* path.join: empty segments are dropped
RECURSIVE pathJoin(_)
pathJoin(segs) ==
  IF segs = << >> THEN << >>
  ELSE IF Head(segs) = << >> THEN pathJoin(Tail(segs))
  ELSE << Head(segs) >> \o pathJoin(Tail(segs))

outputPathOf(segment, categoryName, itemName) ==
  LET formattedCategory == formatFileName(categoryName)
      fileName == formatFileName(itemName) \o << ".png" >>
      categoryDir == pathJoin(<< segment, formattedCategory >>)
  IN  pathJoin(categoryDir \o << fileName >>)

(***************************************************************************)
(* The text-generation service and generatePromptWithGPT.                  *)
(***************************************************************************)
Prompts == { "p1", "p2" }

\* the call rejects, the response has no choices[0].message, or it has a
\* content: null, the empty string or a text
TextResponses ==
  { [ kind |-> "reject", content |-> "" ], [ kind |-> "nochoices", content |-> "" ] }
    \cup { [ kind |-> "content", content |-> x ] : x \in { "null", "" } \cup Prompts }

EmptyCache == [ k \in { } |-> "" ]

\* Map.prototype.set
MapSet(m, k, v) == [ x \in DOMAIN m \cup { k } |-> IF x = k THEN v ELSE m[x] ]

\* generatePromptWithGPT without the lookup of the cache
generatePromptNoLookup(cache, itemName, category, resp) ==
  LET cacheKey == getCacheKey(itemName, category)
      generatedPrompt == IF resp.content \in { "null", "" } THEN "" ELSE resp.content
  IN  IF resp.kind # "content" \/ generatedPrompt = ""
        THEN [ threw |-> TRUE, value |-> "", cache |-> cache, called |-> TRUE ]
      ELSE [ threw |-> FALSE, value |-> generatedPrompt,
             cache |-> MapSet(cache, cacheKey, generatedPrompt), called |-> TRUE ]

\* generatePromptWithGPT with promptCache.set before the test for an empty
\* prompt
generatePromptCachesEmpty(cache, itemName, category, resp) ==
  LET cacheKey == getCacheKey(itemName, category)
      generatedPrompt == IF resp.content \in { "null", "" } THEN "" ELSE resp.content
  IN  IF cacheKey \in DOMAIN cache
        THEN [ threw |-> FALSE, value |-> cache[cacheKey], cache |-> cache, called |-> FALSE ]
      ELSE IF resp.kind # "content"
        THEN [ threw |-> TRUE, value |-> "", cache |-> cache, called |-> TRUE ]
      ELSE IF generatedPrompt = ""
        THEN [ threw |-> TRUE, value |-> "",
               cache |-> MapSet(cache, cacheKey, generatedPrompt), called |-> TRUE ]
      ELSE [ threw |-> FALSE, value |-> generatedPrompt,
             cache |-> MapSet(cache, cacheKey, generatedPrompt), called |-> TRUE ]

\* generatePromptWithGPT with a cache that holds the latest prompt only
generatePromptEvicts(cache, itemName, category, resp) ==
  LET cacheKey == getCacheKey(itemName, category)
      generatedPrompt == IF resp.content \in { "null", "" } THEN "" ELSE resp.content
  IN  IF cacheKey \in DOMAIN cache
        THEN [ threw |-> FALSE, value |-> cache[cacheKey], cache |-> cache, called |-> FALSE ]
      ELSE IF resp.kind # "content" \/ generatedPrompt = ""
        THEN [ threw |-> TRUE, value |-> "", cache |-> cache, called |-> TRUE ]
      ELSE [ threw |-> FALSE, value |-> generatedPrompt,
             cache |-> MapSet(EmptyCache, cacheKey, generatedPrompt), called |-> TRUE ]

\* the result of one call: whether it threw, the prompt returned, the cache
\* afterwards, whether the service was invoked
generatePromptWithGPT(cache, itemName, category, resp) ==
  LET cacheKey == getCacheKey(itemName, category)
      generatedPrompt == IF resp.content \in { "null", "" } THEN "" ELSE resp.content
  IN  IF cacheKey \in DOMAIN cache
        THEN [ threw |-> FALSE, value |-> cache[cacheKey], cache |-> cache, called |-> FALSE ]
      ELSE IF resp.kind # "content" \/ generatedPrompt = ""
        THEN [ threw |-> TRUE, value |-> "", cache |-> cache, called |-> TRUE ]
      ELSE [ threw |-> FALSE, value |-> generatedPrompt,
             cache |-> MapSet(cache, cacheKey, generatedPrompt), called |-> TRUE ]

(***************************************************************************)
(* The image-generation service and generateImage.                         *)
(***************************************************************************)
MaxCands == 2       \* candidates of one response
MaxParts == 2       \* parts of one candidate

Payloads == { "d1", "d2" }

\* a part: text only, an inlineData without data, or an inlineData payload
Parts == { "text", "nodata" } \cup Payloads

Candidates ==
  { [ hasParts |-> FALSE, parts |-> << >> ] }
    \cup { [ hasParts |-> TRUE, parts |-> ps ] : ps \in UNION { [ 1..k -> Parts ] : k \in 0..MaxParts } }

\* the call rejects, the response has no candidates property, or it has a
\* list of candidates
ImageResponses ==
  { [ kind |-> "reject", candidates |-> << >> ], [ kind |-> "nocandidates", candidates |-> << >> ] }
    \cup { [ kind |-> "candidates", candidates |-> cs ] :
             cs \in UNION { [ 1..k -> Candidates ] : k \in 0..MaxCands } }

\* the loop over candidate.content.parts: the data of the first part that
\* has inlineData.data, "" when there is none
\* the loop without its break: the data of the last part that has
\* inlineData.data
RECURSIVE lastInlineData(_)
lastInlineData(parts) ==
  IF parts = << >> THEN ""
  ELSE IF parts[Len(parts)] \in Payloads THEN parts[Len(parts)]
  ELSE lastInlineData(SubSeq(parts, 1, Len(parts) - 1))

RECURSIVE firstInlineData(_)
firstInlineData(parts) ==
  IF parts = << >> THEN ""
  ELSE IF Head(parts) \in Payloads THEN Head(parts)
  ELSE firstInlineData(Tail(parts))

\* fs.writeFileSync on the model's file system, a function from the paths
\* that exist to their content
WriteFile(files, path, data) ==
  [ x \in DOMAIN files \cup { path } |-> IF x = path THEN data ELSE files[x] ]

\* what generateImage takes from a response: the payload it will write,
\* or "" when it throws before writing anything
imageDataOf(resp) ==
  IF resp.kind # "candidates" \/ resp.candidates = << >>
    THEN ""
  ELSE LET candidate == resp.candidates[1]
       IN  IF ~candidate.hasParts THEN "" ELSE firstInlineData(candidate.parts)

\* the responses, by what generateImage takes from them
ImageDatas == { imageDataOf(resp) : resp \in ImageResponses }

\* generateImage writing to path.basename(outputPath)
generateImageBasename(files, outputPath, apiKey, imageData) ==
  IF ~apiKey
    THEN [ threw |-> TRUE, fs |-> files, called |-> FALSE ]
  ELSE IF imageData = ""
    THEN [ threw |-> TRUE, fs |-> files, called |-> TRUE ]
  ELSE [ threw |-> FALSE,
         fs |-> WriteFile(files, << outputPath[Len(outputPath)] >>, imageData),
         called |-> TRUE ]

\* generateImage opening the output file before it looks for the payload
generateImageWritesFirst(files, outputPath, apiKey, imageData) ==
  IF ~apiKey
    THEN [ threw |-> TRUE, fs |-> files, called |-> FALSE ]
  ELSE IF imageData = ""
    THEN [ threw |-> TRUE, fs |-> WriteFile(files, outputPath, ""), called |-> TRUE ]
  ELSE [ threw |-> FALSE, fs |-> WriteFile(files, outputPath, imageData), called |-> TRUE ]

\* generateImage without the throw for a response that carried no image
generateImageNoThrow(files, outputPath, apiKey, imageData) ==
  IF ~apiKey
    THEN [ threw |-> TRUE, fs |-> files, called |-> FALSE ]
  ELSE IF imageData = ""
    THEN [ threw |-> FALSE, fs |-> files, called |-> TRUE ]
  ELSE [ threw |-> FALSE, fs |-> WriteFile(files, outputPath, imageData), called |-> TRUE ]

\* the result of one call, on a response with this image data: whether it
\* threw, the file system afterwards, whether the service was invoked
generateImage(files, outputPath, apiKey, imageData) ==
  IF ~apiKey
    THEN [ threw |-> TRUE, fs |-> files, called |-> FALSE ]
  ELSE IF imageData = ""
    THEN [ threw |-> TRUE, fs |-> files, called |-> TRUE ]
  ELSE [ threw |-> FALSE, fs |-> WriteFile(files, outputPath, imageData), called |-> TRUE ]

\* no response in hand, no call made
NoResponse == [ kind |-> "none", candidates |-> << >> ]

NoCall == [ threw |-> FALSE, fs |-> EmptyCache, called |-> FALSE ]

(***************************************************************************)
(* The state.                                                              *)
(*                                                                         *)
(* The input documents are revealed as main() walks them: whether the      *)
(* next file parses, what the next entry of the document is, what the next *)
(* item of the category is.  What has been revealed is what the files      *)
(* hold: disk keeps it, in reading order, for the runs that read the same  *)
(* input again.  The files under output/ that exist before the first run   *)
(* are revealed in the same way, when existsSync first looks at their      *)
(* path: fs holds the files known to exist, probed the paths looked at.    *)
(***************************************************************************)
VARIABLES
  googleKey,        \* process.env.GOOGLE_API_KEY is set
  openaiKey,        \* process.env.OPENAI_API_KEY is set
  inputDirExists,   \* input/ exists
  disk,             \* what the runs have read of the input files, in reading order
  head,             \* how much of disk this run has read again, plus one
  fs,               \* the files under output/: path -> content
  probed,           \* the paths under output/ that existsSync has looked at
  cacheFile,        \* prompts-cache.json: whether it exists, and its content
  pc,               \* the statement of main() that runs next
  d,                \* the position of the loop over the files
  entries,          \* the category names of the document in hand walked so far
  categoryName,     \* the category in hand
  item,             \* the name of the item in hand
  promptCache,      \* the module-level Map
  prompt,           \* the prompt of the item in hand
  totalProcessed, totalSkipped, totalFailed,
  exitCode,         \* -1 while the process runs
  run,              \* the number of the run
  itemsRead,        \* the items this run has visited
  textCalls,        \* calls of the text-generation service in this run
  imageCalls,       \* calls of the image-generation service in this run
  textOk,           \* cache key -> the texts the text-generation service has
                    \* returned for it in this run, in order
  textFailed,       \* the cache keys a text-generation call of this run failed for
  docItems,         \* the items of the document in hand visited so far, each
                    \* with its category
  pauses,           \* pacing pauses of this run
  dirRead,          \* the run has looked at input/
  snapshotWrites,   \* writes of prompts-cache.json in this run
  fsAtStart,        \* fs when this run started
  prevExit,         \* exitCode of the run before this one, -1 when there is none
  prevFailed,       \* totalFailed at the end of the run before this one
  fatalError,       \* what the catch of main() caught, "" while it has caught nothing
  docAttempts,      \* the items of the document in hand attempted so far
  nameIn,           \* a name handed to formatFileName on its own
  nameOut,          \* what formatFileName returned for it, and for what it returned
  respIn,           \* a response handed to generateImage on its own
  callOut           \* the outcome of that call of generateImage

envVars == << googleKey, openaiKey, inputDirExists >>
input == << disk, head >>
files == << fs, probed >>
counters == << totalProcessed, totalSkipped, totalFailed >>
loopVars == << d, entries, categoryName, item, docItems, docAttempts >>
calls == << textCalls, imageCalls, textOk, textFailed >>
history == << run, fsAtStart, prevExit, prevFailed >>
unitVars == << nameIn, nameOut, respIn, callOut >>
vars ==
  << googleKey, openaiKey, inputDirExists, disk, head, fs, probed, cacheFile, pc,
     d, entries, categoryName, item, promptCache, prompt, totalProcessed, totalSkipped,
     totalFailed, exitCode, run, itemsRead, textCalls, imageCalls, textOk,
     textFailed, docItems, pauses, dirRead, snapshotWrites, fsAtStart, prevExit, prevFailed,
     fatalError, docAttempts, nameIn, nameOut, respIn, callOut >>

Init ==
  /\ googleKey \in BOOLEAN
  /\ openaiKey \in BOOLEAN
  /\ inputDirExists \in BOOLEAN
  /\ disk = << >>
  /\ head = 1
  /\ fs = EmptyCache
  /\ probed = { }
  /\ cacheFile = [ exists |-> FALSE, data |-> EmptyCache ]
  /\ pc = "validate"
  /\ d = 1
  /\ entries = { }
  /\ categoryName = << >>
  /\ item = << >>
  /\ promptCache = EmptyCache
  /\ prompt = ""
  /\ totalProcessed = 0 /\ totalSkipped = 0 /\ totalFailed = 0
  /\ exitCode = -1
  /\ run = 1
  /\ itemsRead = 0
  /\ textCalls = 0 /\ imageCalls = 0
  /\ textOk = EmptyCache
  /\ textFailed = { }
  /\ docItems = { }
  /\ pauses = 0
  /\ dirRead = FALSE
  /\ snapshotWrites = 0
  /\ fsAtStart = fs
  /\ prevExit = -1
  /\ prevFailed = 0
  /\ fatalError = ""
  /\ docAttempts = 0
  /\ nameIn = << >>
  /\ nameOut = << >>
  /\ respIn = NoResponse
  /\ callOut = NoCall

(***************************************************************************)
(* Reading the input.                                                      *)
(***************************************************************************)
\* what reading on can find: what disk holds there, or, where nothing has
\* been read yet, any of the choices
Found(choices) == IF head <= Len(disk) THEN { disk[head] } ELSE choices

\* ev has been read; keep says whether a later run will read it again
Read(ev, keep) ==
  /\ disk' = IF keep /\ head > Len(disk) THEN Append(disk, ev) ELSE disk
  /\ head' = IF keep THEN head + 1 ELSE head

\* the *.json files of input/: none, or some
Listings == { [ kind |-> "files", none |-> b ] : b \in BOOLEAN }

\* the loop over the files goes on with a file, whose text JSON.parse
\* rejects or parses, or is at its end; the first file is there when the
\* listing is not empty
FileChoices ==
  (IF d > 1 THEN { [ kind |-> "end" ] } ELSE { })
    \cup IF d <= MaxDocs
           THEN { [ kind |-> "file", parses |-> b ] : b \in BOOLEAN }
           ELSE { }

\* Object.entries(menuData) goes on with an entry under a key not seen yet,
\* with or without an Items property, or is at its end
EntryChoices ==
  { [ kind |-> "end" ] }
    \cup IF Cardinality(entries) < MaxCats
           THEN { [ kind |-> "category", name |-> nm, hasItems |-> b ] :
                    nm \in CategoryNames \ entries, b \in BOOLEAN }
           ELSE { }

\* category.Items goes on with an item, or is at its end
ItemChoices ==
  { [ kind |-> "end" ] }
    \cup IF itemsRead < MaxItems
           THEN { [ kind |-> "item", name |-> nm ] : nm \in ItemNames }
           ELSE { }

outputPath == outputPathOf(segmentOf(d), categoryName, item)

\* the files that were there before the first run
OldFiles == { p \in DOMAIN fs : fs[p] = "old" }

\* fs.existsSync(path): a file known to exist exists, a path looked at before
\* without a file has none, and a path looked at for the first time may
\* hold a file from before the first run
ExistsSync(path) ==
  IF path \in DOMAIN fs THEN { TRUE }
  ELSE IF path \in probed \/ Cardinality(OldFiles) >= MaxPre THEN { FALSE }
  ELSE BOOLEAN

\* cacheData with nothing copied into it
cacheDataUnfilled(cache) == EmptyCache

\* promptCache.forEach((value, key) => { cacheData[key] = value; })
cacheDataOf(cache) == [ key \in DOMAIN cache |-> cache[key] ]

\* the catch of main(): process.exit(1)
Fatal ==
  /\ pc' = "exited"
  /\ exitCode' = 1

\* the error the catch of main() reports
Caught(error) == fatalError' = error

(***************************************************************************)
(* main(), statement by statement.                                         *)
(***************************************************************************)
\* ValidateKeys without the test of OPENAI_API_KEY
ValidateKeysGoogleOnly ==
  /\ pc = "validate"
  /\ IF ~googleKey
       THEN Fatal /\ Caught("GOOGLE_API_KEY is not set")
       ELSE pc' = "checkdir" /\ UNCHANGED << exitCode, fatalError >>
  /\ UNCHANGED << envVars, unitVars, input, files, cacheFile, loopVars, promptCache, prompt, counters,
                  itemsRead, calls, pauses, dirRead, snapshotWrites, history >>

ValidateKeys ==
  /\ pc = "validate"
  /\ IF ~googleKey
       THEN Fatal /\ Caught("GOOGLE_API_KEY is not set")
       ELSE IF ~openaiKey
         THEN Fatal /\ Caught("OPENAI_API_KEY is not set")
         ELSE pc' = "checkdir" /\ UNCHANGED << exitCode, fatalError >>
  /\ UNCHANGED << envVars, unitVars, input, files, cacheFile, loopVars, promptCache, prompt, counters,
                  itemsRead, calls, pauses, dirRead, snapshotWrites, history >>

CheckInputDir ==
  /\ pc = "checkdir"
  /\ dirRead' = TRUE
  /\ IF ~inputDirExists
       THEN Fatal /\ Caught("input directory not found")
       ELSE pc' = "readdir" /\ UNCHANGED << exitCode, fatalError >>
  /\ UNCHANGED << envVars, unitVars, input, files, cacheFile, loopVars, promptCache, prompt, counters,
                  itemsRead, calls, pauses, snapshotWrites, history >>

ListFiles(keep) ==
  /\ pc = "readdir"
  /\ \E ev \in Found(Listings) :
       /\ Read(ev, keep)
       /\ IF ev.none
            THEN Fatal /\ Caught("No JSON files found")
            ELSE pc' = "file" /\ UNCHANGED << exitCode, fatalError >>
  /\ UNCHANGED << envVars, unitVars, files, cacheFile, loopVars, promptCache, prompt, counters,
                  itemsRead, calls, pauses, dirRead, snapshotWrites, history >>

\* for (const file of files): readFileSync and JSON.parse; after the last
\* file: prompts-cache.json, the summary, and the process ends
ParseDoc(keep) ==
  /\ pc = "file"
  /\ \E ev \in Found(FileChoices) :
       /\ Read(ev, keep)
       /\ IF ev.kind = "end"
            THEN /\ cacheFile' = [ exists |-> TRUE, data |-> cacheDataOf(promptCache) ]
                 /\ snapshotWrites' = snapshotWrites + 1
                 /\ pc' = "exited"
                 /\ exitCode' = 0
                 /\ UNCHANGED << entries, fatalError >>
            ELSE /\ UNCHANGED << cacheFile, snapshotWrites >>
                 /\ IF ~ev.parses
                      THEN Fatal /\ Caught("JSON.parse: SyntaxError") /\ UNCHANGED entries
                      ELSE /\ pc' = "category"
                           /\ entries' = { }
                           /\ UNCHANGED << exitCode, fatalError >>
  /\ UNCHANGED << envVars, unitVars, files, d, categoryName, item, docItems, docAttempts,
                  promptCache, prompt,
                  counters, itemsRead, calls, pauses, dirRead, history >>

\* for (const [categoryName, category] of Object.entries(menuData)):
\* category.Items.length throws on a category without Items
EnterCategory(keep) ==
  /\ pc = "category"
  /\ \E ev \in Found(EntryChoices) :
       /\ Read(ev, keep)
       /\ IF ev.kind = "end"
            THEN /\ pc' = "file"
                 /\ d' = d + 1
                 /\ entries' = { }
                 /\ categoryName' = << >>
                 /\ docItems' = { }
                 /\ docAttempts' = 0
                 /\ UNCHANGED << exitCode, fatalError >>
            ELSE IF ~ev.hasItems
              THEN /\ Fatal
                   /\ Caught("category.Items.length: TypeError")
                   /\ UNCHANGED << d, entries, categoryName, docItems, docAttempts >>
              ELSE /\ pc' = "item"
                   /\ categoryName' = ev.name
                   /\ entries' = entries \cup { ev.name }
                   /\ UNCHANGED << d, docItems, docAttempts, exitCode, fatalError >>
  /\ UNCHANGED << envVars, unitVars, files, cacheFile, item, promptCache, prompt, counters,
                  itemsRead, calls, pauses, dirRead, snapshotWrites, history >>

\* SkipOrAttempt without the continue
SkipNoContinue(exists) ==
  /\ totalSkipped' = IF exists THEN totalSkipped + 1 ELSE totalSkipped
  /\ pc' = "prompt"

\* SkipOrAttempt without the test of existsSync
AttemptAlways(exists) ==
  pc' = "prompt" /\ UNCHANGED totalSkipped

\* if (fs.existsSync(outputPath)) { totalSkipped++; continue; }
SkipOrAttempt(exists) ==
  IF exists
    THEN totalSkipped' = totalSkipped + 1 /\ UNCHANGED pc
    ELSE pc' = "prompt" /\ UNCHANGED totalSkipped

\* for (const item of category.Items): the existence check
CheckItem(keep) ==
  /\ pc = "item"
  /\ \E ev \in Found(ItemChoices) :
       /\ Read(ev, keep)
       /\ IF ev.kind = "end"
            THEN /\ pc' = "category"
                 /\ item' = << >>
                 /\ UNCHANGED << itemsRead, totalSkipped, files, docItems, docAttempts >>
            ELSE /\ item' = ev.name
                 /\ itemsRead' = itemsRead + 1
                 /\ docItems' = docItems \cup { << categoryName, ev.name >> }
                 /\ LET path == outputPathOf(segmentOf(d), categoryName, ev.name)
                     IN  \E exists \in ExistsSync(path) :
                           /\ probed' = probed \cup { path }
                           /\ fs' = IF exists /\ path \notin DOMAIN fs
                                      THEN WriteFile(fs, path, "old")
                                      ELSE fs
                           /\ docAttempts' = IF exists THEN docAttempts ELSE docAttempts + 1
                           /\ SkipOrAttempt(exists)
  /\ UNCHANGED << envVars, unitVars, cacheFile, d, entries, categoryName, promptCache, prompt,
                  totalProcessed, totalFailed, exitCode, fatalError, calls, pauses, dirRead,
                  snapshotWrites, history >>

\* ItemFailed throwing the error on to the catch of main()
ItemFailedRethrows ==
  /\ totalFailed' = totalFailed + 1
  /\ pc' = "exited"
  /\ prompt' = ""

\* ItemFailed without totalFailed++
ItemFailedUncounted ==
  /\ totalFailed' = totalFailed
  /\ pc' = "item"
  /\ prompt' = ""

\* ItemFailed trying the item again
ItemFailedRetries ==
  /\ totalFailed' = totalFailed + 1
  /\ pc' = "prompt"
  /\ prompt' = ""

\* ItemFailed going on with the image stage of the item
ItemFailedGoesOn ==
  /\ totalFailed' = totalFailed + 1
  /\ pc' = "image"
  /\ prompt' = ""

\* the catch of the item: totalFailed++, and on to the next item
ItemFailed ==
  /\ totalFailed' = totalFailed + 1
  /\ pc' = "item"
  /\ prompt' = ""

\* v is one more of the values noted for k
Noted(f, k, v) ==
  [ x \in DOMAIN f \cup { k } |->
      IF x = k THEN (IF k \in DOMAIN f THEN Append(f[k], v) ELSE << v >>) ELSE f[x] ]

\* Stage 1: await generatePromptWithGPT(item, categoryName)
GeneratePrompt ==
  /\ pc = "prompt"
  /\ \E resp \in TextResponses :
       LET r == generatePromptWithGPT(promptCache, item, categoryName, resp)
       IN  /\ promptCache' = r.cache
           /\ textCalls' = IF r.called THEN textCalls + 1 ELSE textCalls
           /\ textOk' = IF r.called /\ ~r.threw
                          THEN Noted(textOk, getCacheKey(item, categoryName), r.value)
                          ELSE textOk
           /\ textFailed' = IF r.called /\ r.threw
                              THEN textFailed \cup { getCacheKey(item, categoryName) }
                              ELSE textFailed
           /\ IF r.threw
                THEN ItemFailed
                ELSE pc' = "image" /\ prompt' = r.value /\ UNCHANGED totalFailed
  /\ UNCHANGED << envVars, unitVars, input, files, cacheFile, loopVars, totalProcessed, totalSkipped,
                  exitCode, fatalError, itemsRead, imageCalls, pauses, dirRead, snapshotWrites,
                  history >>

\* Stage 2: await generateImage({ prompt, outputPath }), then totalProcessed++
GenerateImage ==
  /\ pc = "image"
  /\ \E imageData \in ImageDatas :
       LET r == generateImage(fs, outputPath, googleKey, imageData)
       IN  /\ fs' = r.fs
           /\ imageCalls' = IF r.called THEN imageCalls + 1 ELSE imageCalls
           /\ IF r.threw
                THEN ItemFailed /\ UNCHANGED totalProcessed
                ELSE /\ totalProcessed' = totalProcessed + 1
                     /\ pc' = "pause"
                     /\ UNCHANGED << totalFailed, prompt >>
  /\ UNCHANGED << envVars, unitVars, input, probed, cacheFile, loopVars, promptCache, totalSkipped,
                  exitCode, fatalError, itemsRead, textCalls, textOk, textFailed, pauses, dirRead,
                  snapshotWrites, history >>

\* await new Promise((resolve) => setTimeout(resolve, 1000))
Pause ==
  /\ pc = "pause"
  /\ pauses' = pauses + 1
  /\ pc' = "item"
  /\ prompt' = ""
  /\ UNCHANGED << envVars, unitVars, input, files, cacheFile, loopVars, promptCache, counters,
                  exitCode, fatalError, itemsRead, calls, dirRead, snapshotWrites, history >>

\* the batch is started again in the same working directory, on the same
\* input and with the same environment
Rerun ==
  /\ pc = "exited"
  /\ run < MaxRuns
  /\ run' = run + 1
  /\ fsAtStart' = fs
  /\ prevExit' = exitCode
  /\ prevFailed' = totalFailed
  /\ head' = 1
  /\ pc' = "validate"
  /\ d' = 1
  /\ entries' = { }
  /\ categoryName' = << >>
  /\ item' = << >>
  /\ promptCache' = EmptyCache
  /\ prompt' = ""
  /\ totalProcessed' = 0 /\ totalSkipped' = 0 /\ totalFailed' = 0
  /\ exitCode' = -1
  /\ itemsRead' = 0
  /\ textCalls' = 0 /\ imageCalls' = 0
  /\ textOk' = EmptyCache
  /\ textFailed' = { }
  /\ docItems' = { }
  /\ pauses' = 0
  /\ dirRead' = FALSE
  /\ snapshotWrites' = 0
  /\ fatalError' = ""
  /\ docAttempts' = 0
  /\ UNCHANGED << envVars, unitVars, disk, files, cacheFile >>

\* one run of the batch
Next ==
  \/ ValidateKeys
  \/ CheckInputDir
  \/ ListFiles(FALSE)
  \/ ParseDoc(FALSE)
  \/ EnterCategory(FALSE)
  \/ CheckItem(FALSE)
  \/ GeneratePrompt
  \/ GenerateImage
  \/ Pause

Spec == Init /\ [][Next]_vars

\* one run of the batch in which every statement that can run does run in
\* the end: the synchronous statements, the timer of the pause, and the two
\* awaited service calls, which return or fail
SpecLive == Init /\ [][Next]_vars /\ WF_vars(Next)

\* the batch run again and again over the same input
NextRerun ==
  \/ ValidateKeys
  \/ CheckInputDir
  \/ ListFiles(TRUE)
  \/ ParseDoc(TRUE)
  \/ EnterCategory(TRUE)
  \/ CheckItem(TRUE)
  \/ GeneratePrompt
  \/ GenerateImage
  \/ Pause
  \/ Rerun

SpecRerun == Init /\ [][NextRerun]_vars

(***************************************************************************)
(* formatFileName and generateImage on their own: the function is handed   *)
(* an argument and its result is kept; main() does not run.                *)
(***************************************************************************)
\* main() is not running
Parked ==
  /\ googleKey = TRUE
  /\ openaiKey = TRUE
  /\ inputDirExists = FALSE
  /\ disk = << >>
  /\ head = 1
  /\ fs = EmptyCache
  /\ probed = { }
  /\ cacheFile = [ exists |-> FALSE, data |-> EmptyCache ]
  /\ pc = "parked"
  /\ d = 1
  /\ entries = { }
  /\ categoryName = << >>
  /\ item = << >>
  /\ promptCache = EmptyCache
  /\ prompt = ""
  /\ totalProcessed = 0 /\ totalSkipped = 0 /\ totalFailed = 0
  /\ exitCode = -1
  /\ run = 1
  /\ itemsRead = 0
  /\ textCalls = 0 /\ imageCalls = 0
  /\ textOk = EmptyCache
  /\ textFailed = { }
  /\ docItems = { }
  /\ pauses = 0
  /\ dirRead = FALSE
  /\ snapshotWrites = 0
  /\ fsAtStart = EmptyCache
  /\ prevExit = -1
  /\ prevFailed = 0
  /\ fatalError = ""
  /\ docAttempts = 0

mainVars ==
  << envVars, input, files, cacheFile, pc, loopVars, promptCache, prompt, counters,
     exitCode, itemsRead, calls, pauses, dirRead, snapshotWrites, history, fatalError >>

MaxNameLen == 3     \* characters of a name handed to formatFileName

\* characters of each class the regular expressions tell apart: white space,
\* the four characters replaced one by one, other non-word characters,
\* the hyphen, and word characters of each kind
NameChars == { " ", "/", "&", "(", ")", ".", "-", "_", "A", "b", "1" }

Names == UNION { [ 1..n -> NameChars ] : n \in 0..MaxNameLen }

InitFormat ==
  /\ Parked
  /\ nameIn \in Names
  /\ nameOut = << >>
  /\ respIn = NoResponse
  /\ callOut = NoCall

\* formatFileName(nameIn), and then formatFileName of what it returned
FormatName ==
  /\ pc = "parked"
  /\ Len(nameOut) < 2
  /\ nameOut' = Append(nameOut,
                        formatFileName(IF nameOut = << >> THEN nameIn ELSE nameOut[Len(nameOut)]))
  /\ UNCHANGED << mainVars, nameIn, respIn, callOut >>

NextFormat == FormatName

SpecFormat == InitFormat /\ [][NextFormat]_vars

\* the path generateImage is asked to write, on its own
probePath == outputPathOf(segmentOf(1), << "M" >>, << "S" >>)

InitImage ==
  /\ Parked
  /\ nameIn = << >>
  /\ nameOut = << >>
  /\ respIn \in ImageResponses
  /\ callOut = NoCall

\* generateImage({ prompt, outputPath }) on an empty output/, the service
\* answering with respIn
CallGenerateImage ==
  /\ pc = "parked"
  /\ respIn # NoResponse
  /\ callOut = NoCall
  /\ callOut' = generateImage(fs, probePath, googleKey, imageDataOf(respIn))
  /\ UNCHANGED << mainVars, nameIn, nameOut, respIn >>

NextImage == CallGenerateImage

SpecImage == InitImage /\ [][NextImage]_vars

(***************************************************************************)
(* Properties.                                                             *)
(***************************************************************************)
cacheKey == getCacheKey(item, categoryName)

\* a step of CheckItem that reaches an item, and the output path of that item
ItemReached == pc = "item" /\ itemsRead' = itemsRead + 1

pathReached == outputPathOf(segmentOf(d), categoryName, item')

\* a step in which the prompt stage or the image stage of the item in hand
\* fails
StageFails == pc \in { "prompt", "image" } /\ pc' \notin { "image", "pause" }

\* the items among what the runs have read from the input files
ItemsOn(read) == Cardinality({ k \in DOMAIN read : read[k].kind = "item" })

\* C1: an item reached while a file exists at its output path is skipped:
\* totalSkipped goes up by exactly 1, the other counters stay, no call of
\* either service is made for it, and the loop goes on with the next item.
C1_SkipExisting ==
  [][ (ItemReached /\ pathReached \in DOMAIN fs')
        => /\ totalSkipped' = totalSkipped + 1
           /\ totalProcessed' = totalProcessed
           /\ totalFailed' = totalFailed
           /\ textCalls' = textCalls
           /\ imageCalls' = imageCalls
           /\ pc' = "item" ]_vars

\* an item has been skipped over a file from before the run, with no call
C1_Witness ==
  /\ pc = "item"
  /\ itemsRead = 1
  /\ item # << >>
  /\ outputPath \in OldFiles
  /\ totalSkipped = 1
  /\ textCalls = 0
  /\ imageCalls = 0

\* C2: when the prompt stage or the image stage of an item fails, totalFailed
\* goes up by exactly 1, totalProcessed and totalSkipped stay, and the run
\* goes on at the head of the loop over the items, in the same category of
\* the same document, without exiting; an item that succeeds after a
\* failure is counted as processed and its output file exists.
C2_FailureIsolation ==
  [][ /\ StageFails
        => /\ totalFailed' = totalFailed + 1
           /\ totalProcessed' = totalProcessed
           /\ totalSkipped' = totalSkipped
           /\ pc' = "item"
           /\ exitCode' = -1
           /\ UNCHANGED << d, entries, categoryName, disk, head >>
      /\ (pc = "image" /\ pc' = "pause" /\ totalFailed > 0)
        => /\ totalProcessed' = totalProcessed + 1
           /\ totalFailed' = totalFailed
           /\ outputPath \in DOMAIN fs' ]_vars

\* the image stage of the first item of a category failed, and the second
\* item of that category has its image written
C2_Witness ==
  /\ pc = "pause"
  /\ d = 1
  /\ Cardinality(entries) = 1
  /\ itemsRead = 2
  /\ imageCalls = 2
  /\ totalProcessed = 1
  /\ totalFailed = 1
  /\ totalSkipped = 0
  /\ outputPath \in DOMAIN fs

\* C3: in one run the text-generation service returns a text at most once
\* for each cache key, and once it has, every later generatePromptWithGPT
\* for that key returns that same text without a call of the service.
C3_PromptMemoized ==
  [][ /\ (pc = "prompt" /\ cacheKey \in DOMAIN textOk)
        => /\ pc' = "image"
           /\ prompt' = textOk[cacheKey][1]
           /\ textCalls' = textCalls
           /\ promptCache' = promptCache
      /\ \A k \in DOMAIN textOk' : Len(textOk'[k]) <= 1 ]_vars

\* a second item with the cache key of the first has its prompt from the
\* cache: two items attempted, one call of the service
C3_Witness ==
  /\ pc = "image"
  /\ itemsRead = 2
  /\ totalSkipped = 0
  /\ totalFailed = 1
  /\ textCalls = 1
  /\ cacheKey \in DOMAIN textOk
  /\ prompt = textOk[cacheKey][1]

\* C4: in a run after the first, over the same input and on the file system
\* the earlier runs left, every item whose output file was there when the
\* run started is skipped without a call of either service, only items
\* without an output file are attempted, no file of an earlier run goes
\* away, and when the run before completed with no failed item this run
\* completes with totalProcessed = 0, totalFailed = 0 and totalSkipped the
\* number of items of the input.
C4_Resumable ==
  [][ /\ (run > 1 /\ ItemReached /\ pathReached \in DOMAIN fsAtStart)
        => /\ totalSkipped' = totalSkipped + 1
           /\ textCalls' = textCalls
           /\ imageCalls' = imageCalls
           /\ pc' = "item"
      /\ (run > 1 /\ ItemReached /\ pc' = "prompt") => pathReached \notin DOMAIN fs
      /\ run' = run => DOMAIN fsAtStart \subseteq DOMAIN fs'
      /\ (run' > 1 /\ pc' = "exited" /\ exitCode' = 0 /\ prevExit' = 0 /\ prevFailed' = 0)
        => /\ totalProcessed' = 0
           /\ totalFailed' = 0
           /\ totalSkipped' = ItemsOn(disk') ]_vars

\* a second run has completed after a first that wrote an image and failed
\* for no item: it has skipped both items of the input
C4_Witness ==
  /\ run = 2
  /\ pc = "exited"
  /\ exitCode = 0
  /\ prevExit = 0
  /\ prevFailed = 0
  /\ ItemsOn(disk) = 2
  /\ totalSkipped = 2
  /\ \E p \in DOMAIN fsAtStart : fsAtStart[p] # "old"

\* C5: within a run no counter goes down, a step raises at most one of them
\* and by 1, and every item visited whose processing has ended is counted
\* exactly once, so that a run that completes normally ends with
\* totalProcessed + totalSkipped + totalFailed = the number of items read.
C5_CountersAddUp ==
  [][ /\ totalProcessed' \in { totalProcessed, totalProcessed + 1 }
      /\ totalSkipped' \in { totalSkipped, totalSkipped + 1 }
      /\ totalFailed' \in { totalFailed, totalFailed + 1 }
      /\ (totalProcessed' + totalSkipped' + totalFailed')
           - (totalProcessed + totalSkipped + totalFailed) \in { 0, 1 }
      /\ totalProcessed' + totalSkipped' + totalFailed'
           = itemsRead' - (IF pc' \in { "prompt", "image" } THEN 1 ELSE 0) ]_vars

\* a run has completed normally with an item processed and an item skipped
C5_Witness ==
  /\ pc = "exited"
  /\ exitCode = 0
  /\ itemsRead = 2
  /\ totalProcessed = 1
  /\ totalSkipped = 1
  /\ totalFailed = 0

\* C6: when the attempt of an item starts, every item attempted before it,
\* processed or failed, has been followed by a pacing pause, and no other
\* pause has been made.
C6_PauseAfterEveryAttempt ==
  pc = "prompt" => pauses = totalProcessed + totalFailed

\* C7: a text-generation call that fails adds no entry to the prompt cache
\* and leaves the cache as it was, and a later generatePromptWithGPT for a
\* key that has only failed so far calls the service again.
C7_FailuresNotCached ==
  [][ /\ (pc = "prompt" /\ pc' = "item")
        => promptCache' = promptCache /\ textCalls' = textCalls + 1
      /\ (pc = "prompt" /\ cacheKey \in textFailed /\ cacheKey \notin DOMAIN textOk)
        => textCalls' = textCalls + 1
      /\ DOMAIN promptCache' = DOMAIN textOk' ]_vars

\* the service has failed for a key and, called again for it, has returned
\* a text
C7_Witness ==
  /\ pc = "image"
  /\ cacheKey \in textFailed
  /\ cacheKey \in DOMAIN textOk
  /\ textCalls = 2
  /\ totalFailed = 1

\* C8: a step in which the prompt stage or the image stage of an item fails
\* creates no file under output/ and changes none.
C8_NoPartialOutput ==
  [][ StageFails => fs' = fs ]_vars

\* the image stage of an item has failed and there is no file at its path
C8_Witness ==
  /\ pc = "item"
  /\ item # << >>
  /\ imageCalls = 1
  /\ totalFailed = 1
  /\ outputPath \in probed
  /\ outputPath \notin DOMAIN fs

\* C9: when a credential is absent the run does nothing but exit with
\* status 1: it does not look at input/, reads no input file, calls no
\* service, writes no image and no prompts-cache.json.
C9_FatalCredentials ==
  (~googleKey \/ ~openaiKey)
    => /\ pc \in { "validate", "exited" }
       /\ pc = "exited" <=> exitCode = 1
       /\ exitCode \in { -1, 1 }
       /\ ~dirRead
       /\ disk = << >> /\ head = 1
       /\ textCalls = 0 /\ imageCalls = 0
       /\ DOMAIN fs = { } /\ probed = { }
       /\ ~cacheFile.exists /\ snapshotWrites = 0

\* a run without OPENAI_API_KEY has exited with status 1
C9_Witness ==
  /\ googleKey
  /\ ~openaiKey
  /\ pc = "exited"
  /\ exitCode = 1

\* C10: two items of one document with the same name, in categories of
\* different names, have different cache keys and different output paths.
C10_NoCrossTalk ==
  \A a, b \in docItems :
    (a[1] # b[1] /\ a[2] = b[2])
      => /\ getCacheKey(a[2], a[1]) # getCacheKey(b[2], b[1])
         /\ outputPathOf(segmentOf(d), a[1], a[2]) # outputPathOf(segmentOf(d), b[1], b[2])

\* C11: prompts-cache.json is written once, by the step that ends the run
\* with status 0, and in no other run; what it then holds is, for exactly
\* the cache keys the text-generation service returned a text for in this
\* run, the prompt cached for the key.
C11_SnapshotOnCompletion ==
  /\ snapshotWrites <= 1
  /\ snapshotWrites = 1 <=> (pc = "exited" /\ exitCode = 0)
  /\ cacheFile.exists <=> snapshotWrites = 1
  /\ cacheFile.exists
       => /\ DOMAIN cacheFile.data = DOMAIN textOk
          /\ \A k \in DOMAIN textOk : cacheFile.data[k] = textOk[k][1]
          /\ cacheFile.data = promptCache

\* a run has completed in which one item was skipped and the other got a
\* prompt and then failed in the image stage: the snapshot holds one key
C11_Witness ==
  /\ pc = "exited"
  /\ exitCode = 0
  /\ totalSkipped = 1
  /\ totalFailed = 1
  /\ textCalls = 1
  /\ imageCalls = 1
  /\ Cardinality(DOMAIN cacheFile.data) = 1

\* the errors of a document that cannot be read as a catalog: its text is
\* not JSON, or a category of it has no Items
DocumentErrors == { "JSON.parse: SyntaxError", "category.Items.length: TypeError" }

FileNameChars == Range(LowerChars) \cup Range(DigitChars) \cup { "_", "-" }

\* C13: formatFileName applied to what formatFileName returned gives it back.
C13_Idempotent ==
  Len(nameOut) = 2 => nameOut[2] = nameOut[1]

\* formatFileName has been applied twice to a name that it changes
C13_Witness ==
  /\ Len(nameOut) = 2
  /\ nameIn = << " ", "A", "&" >>
  /\ nameOut[1] = << "a" >>
  /\ nameOut[2] = << "a" >>

\* C14: what formatFileName returns holds only lower-case letters, digits,
\* underscores and hyphens, does not begin or end with a hyphen, has no two
\* hyphens in a row, and is empty for the empty name.
C14_FileNameShape ==
  Len(nameOut) >= 1
    => LET out == nameOut[1]
       IN  /\ Range(out) \subseteq FileNameChars
           /\ out # << >> => (out[1] # "-" /\ out[Len(out)] # "-")
           /\ \A k \in 1..(Len(out) - 1) : ~(out[k] = "-" /\ out[k + 1] = "-")
           /\ nameIn = << >> => out = << >>

\* formatFileName has returned a name with a hyphen inside for a name with
\* an upper-case letter and a character it replaces
C14_Witness ==
  /\ Len(nameOut) >= 1
  /\ nameIn = << "A", "/", "1" >>
  /\ nameOut[1] = << "a", "-", "1" >>

\* C15: the image-generation service is called only in the image stage of
\* an item, with the prompt that generatePromptWithGPT returned for that
\* item; the image stage is entered only from the prompt stage of the same
\* item, the prompt stage only by reaching a new item; and a prompt stage
\* that fails goes on with the next item without a call of the
\* image-generation service.
C15_PromptBeforeImage ==
  [][ /\ imageCalls' # imageCalls
           => /\ pc = "image"
              /\ prompt \in Prompts
              /\ cacheKey \in DOMAIN promptCache
              /\ prompt = promptCache[cacheKey]
      /\ pc' = "image"
           => /\ pc = "prompt"
              /\ item' = item /\ categoryName' = categoryName
              /\ prompt' \in Prompts
      /\ pc' = "prompt" => (pc = "item" /\ itemsRead' = itemsRead + 1)
      /\ (pc = "prompt" /\ pc' # "image")
           => (pc' = "item" /\ imageCalls' = imageCalls) ]_vars

\* the first item has had its prompt from the service and then its image
C15_Witness ==
  /\ pc = "pause"
  /\ itemsRead = 1
  /\ textCalls = 1
  /\ imageCalls = 1
  /\ totalProcessed = 1
  /\ prompt = promptCache[cacheKey]

\* C16: a file under output/ stays, with the content it has, for the rest
\* of the run, whether it was there before the run or was written by it;
\* and an image is written only at a path where no file is, so that no
\* path is written twice in a run.
C16_NoOverwrite ==
  [][ /\ \A p \in DOMAIN fs : p \in DOMAIN fs' /\ fs'[p] = fs[p]
      /\ (pc = "image" /\ pc' = "pause")
           => /\ outputPath \notin DOMAIN fs
              /\ DOMAIN fs' = DOMAIN fs \cup { outputPath } ]_vars

\* two items of one document have the same output path: the image of the
\* first has been written, the second has been skipped over it
C16_Witness ==
  /\ pc = "item"
  /\ Cardinality(docItems) = 2
  /\ \A a, b \in docItems :
       outputPathOf(segmentOf(d), a[1], a[2]) = outputPathOf(segmentOf(d), b[1], b[2])
  /\ totalProcessed = 1
  /\ totalSkipped = 1
  /\ OldFiles = { }
  /\ DOMAIN fs = { outputPath }

\* the response has a first candidate with parts, one of which carries data
FirstHasData ==
  /\ respIn.kind = "candidates"
  /\ respIn.candidates # << >>
  /\ respIn.candidates[1].hasParts
  /\ \E k \in DOMAIN respIn.candidates[1].parts : respIn.candidates[1].parts[k] \in Payloads

\* C17: generateImage writes the data of the first part of the first
\* candidate that carries data, and nothing else; when the first candidate
\* has no such part it throws and writes nothing, whatever the other
\* candidates carry.
C17_FirstMatchWins ==
  callOut.called
    => IF FirstHasData
         THEN LET parts == respIn.candidates[1].parts
                  first == CHOOSE k \in DOMAIN parts :
                             /\ parts[k] \in Payloads
                             /\ \A j \in 1..(k - 1) : parts[j] \notin Payloads
              IN  /\ ~callOut.threw
                  /\ DOMAIN callOut.fs = { probePath }
                  /\ callOut.fs[probePath] = parts[first]
         ELSE /\ callOut.threw
              /\ callOut.fs = EmptyCache

\* the first candidate carried two parts with different data and the
\* second candidate one more: the data of the first part has been written
C17_Witness ==
  /\ callOut.called
  /\ respIn.kind = "candidates"
  /\ Len(respIn.candidates) = 2
  /\ respIn.candidates[1].parts = << "d2", "d1" >>
  /\ respIn.candidates[2].parts = << "d1" >>
  /\ callOut.fs[probePath] = "d2"

\* C18: within a run no step removes a key from promptCache or changes the
\* prompt a key holds, the prompt a key holds is the first text the service
\* returned for it, and a lookup of a key the cache holds returns it.
C18_CacheOnlyGrows ==
  [][ /\ \A k \in DOMAIN promptCache :
           k \in DOMAIN promptCache' /\ promptCache'[k] = promptCache[k]
      /\ \A k \in DOMAIN promptCache' : promptCache'[k] = textOk'[k][1]
      /\ (pc = "prompt" /\ cacheKey \in DOMAIN promptCache)
           => prompt' = promptCache[cacheKey] ]_vars

\* a category holds the same name twice; the first item got its prompt
\* from the service and failed in the image stage, the second has its
\* prompt from the cache
C18_Witness ==
  /\ pc = "image"
  /\ Cardinality(docItems) = 1
  /\ itemsRead = 2
  /\ docAttempts = 2
  /\ textCalls = 1
  /\ imageCalls = 1
  /\ DOMAIN promptCache = { cacheKey }
  /\ prompt = promptCache[cacheKey]

\* the files under output/ that this run has written
NewFiles == { p \in DOMAIN fs : fs[p] # "old" }

\* C19: totalProcessed is the number of image files the run has written.
C19_ProcessedCountsFiles ==
  totalProcessed = Cardinality(NewFiles)

\* a category holds the same name twice: the first item has been written
\* and counted as processed, the second has been counted as skipped
C19_Witness ==
  /\ pc = "item"
  /\ Cardinality(docItems) = 1
  /\ itemsRead = 2
  /\ totalProcessed = 1
  /\ totalSkipped = 1
  /\ totalFailed = 0
  /\ NewFiles = { outputPath }

\* the errors the catch of main() can catch
FatalErrors ==
  { "GOOGLE_API_KEY is not set", "OPENAI_API_KEY is not set", "input directory not found",
    "No JSON files found" } \cup DocumentErrors

\* C20: a run ends; it ends with status 0, after prompts-cache.json has
\* been written and with every item visited counted, or with status 1 on
\* one of the fatal errors; and a stage of an item that fails does not end
\* the run.
C20_Terminates ==
  /\ <>(pc = "exited")
  /\ [](pc = "exited"
          => /\ exitCode \in { 0, 1 }
             /\ exitCode = 0
                  => /\ fatalError = ""
                     /\ snapshotWrites = 1
                     /\ cacheFile.exists
                     /\ totalProcessed + totalSkipped + totalFailed = itemsRead
             /\ exitCode = 1
                  => /\ fatalError \in FatalErrors
                     /\ snapshotWrites = 0)
  /\ [][StageFails => (pc' = "item" /\ exitCode' = -1 /\ fatalError' = "")]_vars

\* a run in which both items failed has ended with status 0
C20_Witness ==
  /\ pc = "exited"
  /\ exitCode = 0
  /\ itemsRead = 2
  /\ totalFailed = 2
  /\ snapshotWrites = 1

=============================================================================
